---- MODULE Spec2Model ----
(***************************************************************************)
(* A model of the data-indexing service: the context assembler            *)
(* (prompt_assembler.py), the indexing sink (storage.py), the enrichment  *)
(* orchestrator (chunk_enricher.py) and the indexing job (pipeline.py).   *)
(*                                                                         *)
(* Text is a sequence of one-character strings, so that lengths, joins    *)
(* and trailing characters are computed and not assumed.                  *)
(***************************************************************************)
EXTENDS Integers, Sequences, FiniteSets, TLC

VARIABLES
    \* ---- context assembler (build_prompt_context) ----
    query,            \* the user's query
    hits,             \* relevant_chunks: the ranked ScoredPoints
    envIncludeMeta,   \* os.environ["INCLUDE_METADATA"], a string
    maxContextChars,  \* int(os.environ["MAX_CONTEXT_CHARS"])
    template,         \* os.environ[os.environ["PROMPT_TYPE"]]
    apc,              \* "ready" before the call, "done" after it
    context,          \* the local `context` when the loop is left
    appended,         \* how many hits the loop appended before it was left
    prompt,           \* the value build_prompt_context returns
    \* ---- indexing sink (storage.py) and the vector store behind it ----
    collection,       \* the store's collection: None, or Some(its configuration)
    points,           \* the points the collection holds
    lastCalls,        \* the requests the last upsert_chunks call sent to the store
    history,          \* the chunk_records of every upsert_chunks call so far
    \* ---- enrichment orchestrator (enrich_chunks) ----
    docs,             \* documents: the batch handed to enrich_chunks
    cpuCount,         \* multiprocessing.cpu_count()
    epc,              \* where enrich_chunks is: ready, mapping, done, error
    poolSize,         \* max_workers of the ProcessPoolExecutor
    docState,         \* per document task: queued, running, done
    chunkState,       \* per document, per chunk task: pending, running, done
    chunkResult,      \* per document, per chunk: the future's result
    chunkOrder,       \* per document: chunk indexes in completion order
    docResult,        \* per document: the document its worker returned
    docOrder,         \* document indexes in completion order
    records,          \* the chunk_records enrich_chunks returns
    nextUuid,         \* how many uuid4() values have been drawn
    \* ---- indexing job (run_indexing_job) ----
    mongoDocs,        \* the documents of the MongoDB collection
    jobRuns,          \* how many times run_indexing_job has been run
    jobStatus,        \* how the last run ended: none, ok, failed
    \* ---- keyword extraction (extract_keywords) ----
    kwText,           \* text: the text handed to extract_keywords
    kwTopN,           \* int(os.environ["KEYWORD_EXTRACTION_TOP_N"])
    kpc,              \* "ready" before the call, "done" after it
    kwResult,         \* the list extract_keywords returns
    \* ---- embedder (embed_chunks) ----
    embInput,         \* chunk_records as the caller built them
    embRecords,       \* the caller's list as embed_chunks has left it
    embPos,           \* how many records of the list the loop has passed
    embStatus,        \* where embed_chunks is: ready, running, done, raised
    \* ---- exceptions in the enrichment orchestrator ----
    docErrors,        \* pairs <<d, e>>: document d's worker raised exception e
    callError,        \* the exception that left enrich_chunks, None if none did
    \* ---- spelling dictionaries (SpellChecker instances) ----
    spellCount,       \* how many SpellChecker() instances have been created
    docSpell,         \* pairs <<d, s>>: document d's task created instance s
    chunkSpell,       \* triples <<d, i, s>>: the worker of chunk i of d was handed s
    \* ---- normalizer (the cleaning steps of process_single_chunk) ----
    nText,            \* the text handed to the normalizer
    npc,              \* "ready" before the calls, "done" after them
    nOnce,            \* the normalizer's output for nText
    nTwice,           \* the normalizer's output for nOnce
    \* ---- chunker (chunk_text) ----
    cContent,         \* doc["content"] of the document handed to chunk_text
    cpc,              \* "ready" before the call, "done" after it
    cSegments         \* doc["chunks"] after the call

assembleVars == <<query, hits, envIncludeMeta, maxContextChars, template,
                  apc, context, appended, prompt>>

storeVars == <<collection, points, lastCalls, history>>

enrichVars == <<docs, cpuCount, epc, poolSize, docState, chunkState,
                chunkResult, chunkOrder, docResult, docOrder, records, nextUuid>>

jobVars == <<mongoDocs, jobRuns, jobStatus>>

keywordVars == <<kwText, kwTopN, kpc, kwResult>>

embedVars == <<embInput, embRecords, embPos, embStatus>>

failVars == <<docErrors, callError>>

spellVars == <<spellCount, docSpell, chunkSpell>>

normVars == <<nText, npc, nOnce, nTwice>>

chunkVars == <<cContent, cpc, cSegments>>

vars == <<assembleVars, storeVars, enrichVars, jobVars, keywordVars,
         embedVars, failVars, spellVars, normVars, chunkVars>>

----------------------------------------------------------------------------
(* Bounds of the model. *)

MaxHits == 3
MaxChars == 28
\* upsert_chunks calls in one behaviour
MaxUpserts == 2
\* documents in one batch, and processors of the machine
MaxDocs == 2
MaxCpu == 2
\* runs of the indexing job in one behaviour
MaxRuns == 2
\* words in a text handed to extract_keywords, and the largest top_n
MaxWords == 4
MaxTopN == 3
\* records in a list handed to embed_chunks
MaxRecords == 3
\* characters in a text handed to the normalizer
MaxTextLen == 4
\* paragraphs in a document handed to chunk_text
MaxParagraphs == 3

----------------------------------------------------------------------------
(* Text helpers. *)

NL == "\n"

\* An optional value is a sequence of at most one element: None (or a missing
\* key) is the empty one, a present value v is Some(v).
None == <<>>
Some(v) == <<v>>

\* A payload key that is missing: payload.get(k) is None.
Absent == None

\* payload is None
NoPayload == None

RECURSIVE Concat(_)
\* "".join(seqs)
Concat(seqs) ==
    IF seqs = <<>> THEN <<>> ELSE Head(seqs) \o Concat(Tail(seqs))

RECURSIVE Join(_, _)
\* sep.join(seqs)
Join(sep, seqs) ==
    IF seqs = <<>> THEN <<>>
    ELSE IF Len(seqs) = 1 THEN seqs[1]
    ELSE seqs[1] \o sep \o Join(sep, Tail(seqs))

\* Python truthiness of payload.get(k): a missing key, None and "" are falsy.
Truthy(v) == v # None /\ v[1] # <<>>

----------------------------------------------------------------------------
(* The state of each component while a behaviour exercises another one. *)

AssembleIdle ==
    /\ query = <<>>
    /\ hits = <<>>
    /\ envIncludeMeta = ""
    /\ maxContextChars = 0
    /\ template = <<>>
    /\ apc = "idle"
    /\ context = <<>>
    /\ appended = 0
    /\ prompt = <<>>

StoreIdle ==
    /\ collection = None
    /\ points = {}
    /\ lastCalls = <<>>
    /\ history = <<>>

EnrichIdle ==
    /\ docs = <<>>
    /\ cpuCount = 1
    /\ epc = "idle"
    /\ poolSize = 0
    /\ docState = <<>>
    /\ chunkState = <<>>
    /\ chunkResult = <<>>
    /\ chunkOrder = <<>>
    /\ docResult = <<>>
    /\ docOrder = <<>>
    /\ records = <<>>
    /\ nextUuid = 0

JobIdle ==
    /\ mongoDocs = <<>>
    /\ jobRuns = 0
    /\ jobStatus = "none"

KeywordsIdle ==
    /\ kwText = <<>>
    /\ kwTopN = 0
    /\ kpc = "idle"
    /\ kwResult = <<>>

EmbedIdle ==
    /\ embInput = <<>>
    /\ embRecords = <<>>
    /\ embPos = 0
    /\ embStatus = "idle"

\* No worker of the orchestrator has raised.
FailIdle ==
    /\ docErrors = {}
    /\ callError = None

NormIdle ==
    /\ nText = <<>>
    /\ npc = "idle"
    /\ nOnce = <<>>
    /\ nTwice = <<>>

ChunkIdle ==
    /\ cContent = <<>>
    /\ cpc = "idle"
    /\ cSegments = <<>>

\* No SpellChecker has been created.
SpellIdle ==
    /\ spellCount = 0
    /\ docSpell = {}
    /\ chunkSpell = {}

----------------------------------------------------------------------------
(* prompt_assembler.py *)

LocationLabel == <<"L","o","c","a","t","i","o","n",":"," ">>
SourceLabel == <<"S","o","u","r","c","e",":"," ">>
DocIdLabel == <<"D","o","c","u","m","e","n","t"," ","I","D",":"," ">>
CreatedAtLabel == <<"C","r","e","a","t","e","d"," ","A","t",":"," ">>
CommaSpace == <<",", " ">>

\* bool(utils.get_env_var("INCLUDE_METADATA")): bool of a str is its non-emptiness.
IncludeMetadata(env) == env # ""

\* text = payload.get("chunk_text", "") if payload else ""
ChunkTextOf(payload) ==
    IF payload = NoPayload THEN <<>>
    ELSE IF payload[1].chunk_text = Absent THEN <<>>
    ELSE payload[1].chunk_text[1]

\* One `if payload and payload.get(k): meta.append(f"<label>{payload[k]}")`.
MetaEntry(payload, key, label) ==
    IF payload # NoPayload /\ Truthy(payload[1][key])
    THEN << label \o payload[1][key][1] >>
    ELSE <<>>

\* The list `meta` after the four appends.
MetaOf(payload) ==
    MetaEntry(payload, "location", LocationLabel)
        \o MetaEntry(payload, "source", SourceLabel)
        \o MetaEntry(payload, "doc_id", DocIdLabel)
        \o MetaEntry(payload, "created_at", CreatedAtLabel)

\* The snippet with the metadata line ended even when it lists nothing.
SnippetAlwaysLine(hit, include) ==
    LET payload == hit.payload
        text == ChunkTextOf(payload)
    IN  IF include
        THEN Join(CommaSpace, MetaOf(payload)) \o <<NL>> \o text
        ELSE text \o <<NL>>

\* The snippet of one hit (both branches of `if include_metadata`).
Snippet(hit, include) ==
    LET payload == hit.payload
        text == ChunkTextOf(payload)
    IN  IF include
        THEN LET meta == MetaOf(payload)
             IN  (IF meta # <<>> THEN Join(CommaSpace, meta) \o <<NL>> ELSE <<>>)
                     \o text
        ELSE text \o <<NL>>

RECURSIVE ContextLoopSkip(_, _, _, _, _)
\* The loop with `continue` in the place of `break`.
ContextLoopSkip(hs, include, max, i, ctx) ==
    IF i > Len(hs) THEN [context |-> ctx.context, appended |-> ctx.appended]
    ELSE LET snippet == Snippet(hs[i], include)
         IN  IF Len(ctx.context) + Len(snippet) > max
             THEN ContextLoopSkip(hs, include, max, i + 1, ctx)
             ELSE ContextLoopSkip(hs, include, max, i + 1,
                      [context |-> ctx.context \o snippet,
                       appended |-> ctx.appended + 1])

RECURSIVE ContextLoopNoSum(_, _, _, _, _)
\* The loop with the budget test on the snippet alone.
ContextLoopNoSum(hs, include, max, i, ctx) ==
    IF i > Len(hs) THEN ctx
    ELSE LET snippet == Snippet(hs[i], include)
         IN  IF Len(snippet) > max
             THEN ctx
             ELSE ContextLoopNoSum(hs, include, max, i + 1,
                      [context |-> ctx.context \o snippet,
                       appended |-> ctx.appended + 1])

RECURSIVE ContextLoop(_, _, _, _, _)
\* `for chunk in relevant_chunks:` from hit i on, ctx being the loop's state.
ContextLoop(hs, include, max, i, ctx) ==
    IF i > Len(hs) THEN ctx
    ELSE LET snippet == Snippet(hs[i], include)
         IN  IF Len(ctx.context) + Len(snippet) > max
             THEN ctx
             ELSE ContextLoop(hs, include, max, i + 1,
                      [context |-> ctx.context \o snippet,
                       appended |-> ctx.appended + 1])

\* Placeholders of a template.
ContextHole == "{context}"
QueryHole == "{query}"

RECURSIVE Format(_, _, _)
\* template.format(context=context, query=query)
Format(tpl, ctx, q) ==
    IF tpl = <<>> THEN <<>>
    ELSE (IF Head(tpl) = ContextHole THEN ctx
          ELSE IF Head(tpl) = QueryHole THEN q
          ELSE <<Head(tpl)>>) \o Format(Tail(tpl), ctx, q)

\* render_prompt(context, query)
RenderPrompt(ctx, q, tpl) == Format(tpl, ctx, q)

----------------------------------------------------------------------------
(* Inputs of the context assembler. *)

Payload(text, location, source, doc_id, created_at) ==
    Some([chunk_text |-> text, location |-> location, source |-> source,
          doc_id |-> doc_id, created_at |-> created_at])

Payloads ==
    { NoPayload,
      Payload(Some(<<"a">>), Absent, Absent, Absent, Absent),
      Payload(Some(<<"a", "b", "c">>), Absent, Absent, Some(<<>>), Absent),
      Payload(Some(<<"b">>), Some(<<"x">>), Absent, Absent, Absent),
      Payload(Absent, Absent, Some(<<"s">>), Absent, Some(<<"9">>)),
      Payload(Some(<<"a", NL>>), Absent, Absent, Some(<<"d">>), Absent) }

Hits == { [payload |-> p] : p \in Payloads }

HitLists == UNION { [1..n -> Hits] : n \in 0..MaxHits }

IncludeMetaEnv == { "", "True", "False", "0" }

Templates ==
    { <<ContextHole>>,
      <<"C", ":", ContextHole, "Q", ":", QueryHole>> }

Queries == { <<>>, <<"q">> }

AssembleInit ==
    /\ query \in Queries
    /\ hits \in HitLists
    /\ envIncludeMeta \in IncludeMetaEnv
    /\ maxContextChars \in 0..MaxChars
    /\ template \in Templates
    /\ apc = "ready"
    /\ context = <<>>
    /\ appended = 0
    /\ prompt = <<>>
    /\ StoreIdle
    /\ EnrichIdle
    /\ JobIdle
    /\ KeywordsIdle
    /\ EmbedIdle
    /\ FailIdle
    /\ SpellIdle
    /\ NormIdle
    /\ ChunkIdle

\* build_prompt_context(query, relevant_chunks)
BuildPromptContext ==
    /\ apc = "ready"
    /\ LET include == IncludeMetadata(envIncludeMeta)
           res == ContextLoop(hits, include, maxContextChars, 1,
                              [context |-> <<>>, appended |-> 0])
       IN  /\ context' = res.context
           /\ appended' = res.appended
           /\ prompt' = RenderPrompt(res.context, query, template)
    /\ apc' = "done"
    /\ UNCHANGED <<query, hits, envIncludeMeta, maxContextChars, template>>
    /\ UNCHANGED <<storeVars, enrichVars, jobVars, keywordVars, embedVars, failVars, spellVars, normVars, chunkVars>>

AssembleNext == BuildPromptContext

SpecAssemble == AssembleInit /\ [][AssembleNext]_vars



----------------------------------------------------------------------------
(* chunk_enricher.py: the text transforms.  A character is a one-character *)
(* string, or the name of a code point outside ASCII.                      *)

EAcute == "U+00E9"          \* e with acute accent, one code point
CombiningAcute == "U+0301"  \* the combining acute accent
SharpS == "U+00DF"          \* a letter with no decomposition and no ASCII form
TradeMark == "U+2122"       \* the trade mark sign: no lowercase, NFKD gives "TM"
SP == " "

Letters == {"a", "b", "c", "d", "e", "g", "m", "o", "t"}
UpperCase == {"A", "B", "M", "T"}
\* the characters of string.punctuation that the inputs use
Punctuation == {".", "-"}
Whitespace == {SP, NL}

\* str.lower() on one character
LowerChar(c) ==
    CASE c = "A" -> "a"
      [] c = "B" -> "b"
      [] c = "M" -> "m"
      [] c = "T" -> "t"
      [] OTHER -> c

\* str.lower()
Lower(text) == [i \in 1..Len(text) |-> LowerChar(text[i])]

RECURSIVE LStrip(_)
LStrip(text) ==
    IF text # <<>> /\ Head(text) \in Whitespace THEN LStrip(Tail(text)) ELSE text

RECURSIVE RStrip(_)
RStrip(text) ==
    IF text # <<>> /\ text[Len(text)] \in Whitespace
    THEN RStrip(SubSeq(text, 1, Len(text) - 1))
    ELSE text

\* str.strip()
Strip(text) == RStrip(LStrip(text))

RECURSIVE Remove(_, _)
\* [x for x in seq if x \notin drop]
Remove(seq, drop) ==
    IF seq = <<>> THEN <<>>
    ELSE (IF Head(seq) \in drop THEN <<>> ELSE <<Head(seq)>>)
             \o Remove(Tail(seq), drop)

\* clean_text(text): text.lower().strip()
CleanText(text) == Strip(Lower(text))

\* The NFKD decomposition of one character.
NFKDChar(c) ==
    IF c = EAcute THEN <<"e", CombiningAcute>>
    ELSE IF c = TradeMark THEN <<"T", "M">>
    ELSE <<c>>

\* unicodedata.normalize('NFKD', text)
NFKD(text) == Concat([i \in 1..Len(text) |-> NFKDChar(text[i])])

RECURSIVE CollapseSpaces(_)
\* re.sub(r'\s+', ' ', text)
CollapseSpaces(text) ==
    IF text = <<>> THEN <<>>
    ELSE IF Head(text) \in Whitespace
         THEN <<SP>> \o CollapseSpaces(LStrip(text))
         ELSE <<Head(text)>> \o CollapseSpaces(Tail(text))

\* normalize_unicode(text)
NormalizeUnicode(text) ==
    LET decomposed == NFKD(text)
        unmarked == Remove(decomposed, {CombiningAcute})
        ascii == Remove(unmarked, {EAcute, CombiningAcute, SharpS, TradeMark})
    IN  Strip(CollapseSpaces(ascii))

\* remove_punctuation(text)
RemovePunctuation(text) == Remove(text, Punctuation)

RECURSIVE WordTokenize(_)
\* nltk word_tokenize, on text of letters, digits and whitespace: the maximal
\* runs of non-whitespace characters.
WordTokenize(text) ==
    LET t == LStrip(text)
    IN  IF t = <<>> THEN <<>>
        ELSE LET stops == { i \in 1..Len(t) : t[i] \in Whitespace }
                 end == IF stops = {} THEN Len(t) + 1
                        ELSE CHOOSE i \in stops : \A j \in stops : i <= j
             IN  <<SubSeq(t, 1, end - 1)>> \o WordTokenize(SubSeq(t, end, Len(t)))

\* The words of the spelling dictionary over the model's letters (`word in spell`).
SpellKnown == { <<"a">>, <<"a", "b">>, <<"b", "e">>, <<"b", "e", "e">> }

\* spell.correction(word): the best candidate, None when there is none.
SpellCorrection(word) ==
    IF word \in SpellKnown THEN Some(word)
    ELSE IF word = <<"b", "b">> THEN Some(<<"b", "e">>)
    ELSE IF word = <<"b", "a">> THEN Some(<<"a", "b">>)
    ELSE None

\* spell.correction(word) or word if word not in spell else word
CorrectWord(word) ==
    IF word \notin SpellKnown
    THEN (IF SpellCorrection(word) # None /\ SpellCorrection(word)[1] # <<>>
          THEN SpellCorrection(word)[1] ELSE word)
    ELSE word

\* fix_spelling(text, spell)
FixSpelling(text) ==
    LET tokens == WordTokenize(text)
    IN  Join(<<SP>>, [i \in 1..Len(tokens) |-> CorrectWord(tokens[i])])

\* stopwords.words('english'), the words of it over the model's letters
StopWords == { <<"a">>, <<"b", "e">> }

RECURSIVE RemoveWords(_, _)
\* [word for word in words if word.lower() not in stop_words]
RemoveWords(words, stop) ==
    IF words = <<>> THEN <<>>
    ELSE (IF Lower(Head(words)) \in stop THEN <<>> ELSE <<Head(words)>>)
             \o RemoveWords(Tail(words), stop)

\* remove_stopwords(text)
RemoveStopwords(text) == Join(<<SP>>, RemoveWords(WordTokenize(text), StopWords))

\* process_single_chunk(chunk, spell)
ProcessSingleChunk(chunk) ==
    LET cleaned == CleanText(chunk)
        normalized == NormalizeUnicode(cleaned)
        no_punct == RemovePunctuation(normalized)
        no_typos == FixSpelling(no_punct)
        no_stops == RemoveStopwords(no_typos)
    IN  no_stops

\* str.isalpha()
IsAlpha(word) ==
    /\ word # <<>>
    /\ \A i \in 1..Len(word) : word[i] \in Letters \cup UpperCase \cup {EAcute, SharpS}

RECURSIVE AlphaContentWords(_)
\* [w.lower() for w in tokens if w.isalpha() and w.lower() not in stop_words]
AlphaContentWords(tokens) ==
    IF tokens = <<>> THEN <<>>
    ELSE (IF IsAlpha(Head(tokens)) /\ Lower(Head(tokens)) \notin StopWords
          THEN <<Lower(Head(tokens))>> ELSE <<>>)
             \o AlphaContentWords(Tail(tokens))

\* Counter(words)[w]
Count(words, w) == Cardinality({ i \in 1..Len(words) : words[i] = w })

RECURSIVE Distinct(_)
\* The keys of Counter(words), in insertion (first occurrence) order.
Distinct(words) ==
    IF words = <<>> THEN <<>>
    ELSE LET rest == Distinct(SubSeq(words, 1, Len(words) - 1))
             last == words[Len(words)]
         IN  IF \E i \in 1..Len(rest) : rest[i] = last THEN rest
             ELSE Append(rest, last)

\* The position of key k when, of the keys with the same count, the later
\* ones come first.
RankTiesLastSeen(words, keys, k) ==
    1 + Cardinality({ j \in 1..Len(keys) :
            \/ Count(words, keys[j]) > Count(words, keys[k])
            \/ Count(words, keys[j]) = Count(words, keys[k]) /\ j > k })

\* The position of key k in sorted(keys, key=count, reverse=True): the keys
\* with a larger count come first, and of those with the same count the
\* earlier ones (the sort is stable).
Rank(words, keys, k) ==
    1 + Cardinality({ j \in 1..Len(keys) :
            \/ Count(words, keys[j]) > Count(words, keys[k])
            \/ Count(words, keys[j]) = Count(words, keys[k]) /\ j < k })

\* [word for word, count in Counter(words).most_common(top_n)]
MostCommon(words, top_n) ==
    LET keys == Distinct(words)
        n == IF top_n <= 0 THEN 0
             ELSE IF top_n >= Len(keys) THEN Len(keys) ELSE top_n
    IN  [r \in 1..n |-> keys[CHOOSE k \in 1..Len(keys) : Rank(words, keys, k) = r]]

\* int(get_env_var("KEYWORD_EXTRACTION_TOP_N"))
KeywordTopN == 2

\* extract_keywords(text, spell), top_n being the configured count
ExtractKeywords(text, top_n) ==
    MostCommon(AlphaContentWords(WordTokenize(text)), top_n)

----------------------------------------------------------------------------
(* extract_keywords called on its own. *)

\* The words of the texts: two plain words, a stopword, a capitalised word
\* and its lowercase form, and a word that is not alphabetic.
KeywordWords ==
    { <<"c", "a", "t">>, <<"d", "o", "g">>, <<"a">>, <<"A", "b">>,
      <<"a", "b">>, <<"b", "7">> }

KeywordTexts ==
    { Join(<<SP>>, ws) : ws \in UNION { [1..n -> KeywordWords] : n \in 0..MaxWords } }

KeywordsInit ==
    /\ kwText \in KeywordTexts
    /\ kwTopN \in (-1)..MaxTopN
    /\ kpc = "ready"
    /\ kwResult = <<>>
    /\ AssembleIdle
    /\ StoreIdle
    /\ EnrichIdle
    /\ JobIdle
    /\ EmbedIdle
    /\ FailIdle
    /\ SpellIdle
    /\ NormIdle
    /\ ChunkIdle

\* extract_keywords(text, spell) with KEYWORD_EXTRACTION_TOP_N = kwTopN
ExtractKeywordsCall ==
    /\ kpc = "ready"
    /\ kwResult' = ExtractKeywords(kwText, kwTopN)
    /\ kpc' = "done"
    /\ UNCHANGED <<kwText, kwTopN>>
    /\ UNCHANGED <<assembleVars, storeVars, enrichVars, jobVars, embedVars, failVars, spellVars, normVars, chunkVars>>

KeywordsNext == ExtractKeywordsCall

SpecKeywords == KeywordsInit /\ [][KeywordsNext]_vars

----------------------------------------------------------------------------
(* The cleaning steps of process_single_chunk, applied to their own output. *)

\* process_single_chunk without fix_spelling: clean_text, normalize_unicode,
\* remove_punctuation and remove_stopwords, in that order.
Normalize(text) ==
    LET cleaned == CleanText(text)
        normalized == NormalizeUnicode(cleaned)
        no_punct == RemovePunctuation(normalized)
        no_stops == RemoveStopwords(no_punct)
    IN  no_stops

\* The characters of the texts: letters, a capital, a space, a punctuation
\* mark, an accented letter and the trade mark sign.
NormChars == {"a", "b", "e", "B", SP, ".", EAcute, TradeMark}

NormTexts == UNION { [1..n -> NormChars] : n \in 0..MaxTextLen }

NormInit ==
    /\ nText \in NormTexts
    /\ npc = "ready"
    /\ nOnce = <<>>
    /\ nTwice = <<>>
    /\ AssembleIdle
    /\ StoreIdle
    /\ EnrichIdle
    /\ JobIdle
    /\ KeywordsIdle
    /\ EmbedIdle
    /\ FailIdle
    /\ SpellIdle
    /\ ChunkIdle

\* The normalizer called on a text and then on what it returned.
NormalizeTwice ==
    /\ npc = "ready"
    /\ nOnce' = Normalize(nText)
    /\ nTwice' = Normalize(Normalize(nText))
    /\ npc' = "done"
    /\ UNCHANGED nText
    /\ UNCHANGED <<assembleVars, storeVars, enrichVars, jobVars, keywordVars, embedVars, failVars, spellVars, chunkVars>>

NormNext == NormalizeTwice

SpecNormalize == NormInit /\ [][NormNext]_vars


----------------------------------------------------------------------------
(* chunk_enricher.py: the orchestration. *)

Min(a, b) == IF a <= b THEN a ELSE b
Max(a, b) == IF a >= b THEN a ELSE b

\* A document as chunk_text leaves it; doc.get(k) is None for a missing key.
\* keywords stands for the key that process_single_document sets.
Document(id, source, chunks) ==
    [document_id |-> id, chunks |-> chunks, keywords |-> <<>>,
     source |-> source, type |-> None, title |-> None, location |-> None,
     created_at |-> None, fetched_at |-> None, language |-> None]

\* The pool sized by the documents that have chunks.
OuterPoolSizeNonEmpty(documents, cpus) ==
    Min(Cardinality({ d \in 1..Len(documents) : documents[d].chunks # <<>> }),
        cpus)

\* max_workers = min(len(documents), multiprocessing.cpu_count())
OuterPoolSize(documents, cpus) == Min(Len(documents), cpus)

\* max_chunk_workers = min(max(len(doc["chunks"]), 1), 4)
InnerPoolSize(doc) == Min(Max(Len(doc.chunks), 1), 4)

\* The results of the futures in the order in which they completed.
ResultsAsCompleted(results, order) ==
    [k \in 1..Len(order) |-> results[order[k]][1]]

\* list(executor.map(f, items)): the results of the futures in the order of
\* the items, whatever the order in which they completed.
MapResults(results, order) ==
    [i \in 1..Len(results) |-> results[i][1]]

\* The tail of process_single_document with the keywords taken from the
\* chunks as they came in.
EnrichedDocumentRawKeywords(doc, enriched_chunks) ==
    [doc EXCEPT !.chunks = enriched_chunks,
                !.keywords = ExtractKeywords(Join(<<SP>>, doc.chunks), KeywordTopN)]

\* The tail of process_single_document: doc["chunks"] and doc["keywords"].
EnrichedDocument(doc, enriched_chunks) ==
    [doc EXCEPT !.chunks = enriched_chunks,
                !.keywords = ExtractKeywords(Join(<<SP>>, enriched_chunks),
                                             KeywordTopN)]

\* str(uuid4()), the n-th value drawn
Uuid4(n) == <<"uuid4", n>>

\* The chunk_record dict that to_chunk_records builds.
ToChunkRecord(id, i, chunk_text, doc) ==
    [chunk_id |-> id, chunk_index |-> i, chunk_text |-> chunk_text,
     doc_id |-> doc.document_id, source |-> doc.source, type |-> doc.type,
     title |-> doc.title, location |-> doc.location,
     created_at |-> doc.created_at, fetched_at |-> doc.fetched_at,
     language |-> doc.language, keywords |-> doc.keywords]

\* The records of one document, chunk_index counted from one.
DocumentRecordsFromOne(doc, drawn) ==
    [i \in 1..Len(doc.chunks) |->
        ToChunkRecord(Uuid4(drawn + i), i, doc.chunks[i], doc)]

\* The inner loop of to_chunk_records: `for i, chunk_text in enumerate(...)`,
\* with `drawn` uuid4 values drawn before it.
DocumentRecords(doc, drawn) ==
    [i \in 1..Len(doc.chunks) |->
        ToChunkRecord(Uuid4(drawn + i), i - 1, doc.chunks[i], doc)]

RECURSIVE ToChunkRecords(_, _)
\* to_chunk_records(documents)
ToChunkRecords(documents, drawn) ==
    IF documents = <<>> THEN <<>>
    ELSE DocumentRecords(Head(documents), drawn)
             \o ToChunkRecords(Tail(documents),
                               drawn + Len(Head(documents).chunks))

\* chunk["embedding"] = embedding.tolist()
WithEmbedding(chunk, embedding) ==
    [k \in DOMAIN chunk \cup {"embedding"} |->
        IF k = "embedding" THEN embedding ELSE chunk[k]]

\* The raw chunks of the inputs.
Raw1 == <<"A", "b", SP, "b", ".">>
Raw2 == <<SP, "a", SP, "b", EAcute>>
Raw3 == <<"b", "b", SP, SP, "b", "e", "e", SharpS, "-", "b", SP, "A", "B">>

ChunkLists == { <<>>, <<Raw1, Raw3>>, <<Raw3, Raw2>> }

DocumentPool ==
    { Document(id, None, chunks) : id \in {"d1", "d2"}, chunks \in ChunkLists }

DocumentBatches == UNION { [1..n -> DocumentPool] : n \in 0..MaxDocs }

EnrichInit ==
    /\ docs \in DocumentBatches
    /\ cpuCount \in 1..MaxCpu
    /\ epc = "ready"
    /\ poolSize = 0
    /\ docState = [d \in 1..Len(docs) |-> "queued"]
    /\ chunkState = [d \in 1..Len(docs) |-> [i \in 1..Len(docs[d].chunks) |-> "pending"]]
    /\ chunkResult = [d \in 1..Len(docs) |-> [i \in 1..Len(docs[d].chunks) |-> None]]
    /\ chunkOrder = [d \in 1..Len(docs) |-> <<>>]
    /\ docResult = [d \in 1..Len(docs) |-> None]
    /\ docOrder = <<>>
    /\ records = <<>>
    /\ nextUuid = 0
    /\ AssembleIdle
    /\ StoreIdle
    /\ JobIdle
    /\ KeywordsIdle
    /\ EmbedIdle
    /\ FailIdle
    /\ SpellIdle
    /\ NormIdle
    /\ ChunkIdle

\* enrich_chunks up to the executor: max_workers = 0 makes ProcessPoolExecutor
\* raise ValueError.
EnrichStart ==
    /\ epc = "ready"
    /\ poolSize' = OuterPoolSize(docs, cpuCount)
    /\ epc' = IF OuterPoolSize(docs, cpuCount) <= 0 THEN "error" ELSE "mapping"
    /\ UNCHANGED <<docs, cpuCount, docState, chunkState, chunkResult, chunkOrder,
                   docResult, docOrder, records, nextUuid>>
    /\ UNCHANGED <<assembleVars, storeVars, jobVars, keywordVars, embedVars, failVars, spellVars, normVars, chunkVars>>

\* One instance, the first created, handed to every chunk worker.
SpellShared(d) == 1

\* partial(process_single_chunk, spell=spell): the instance that document d's
\* task created in `spell = SpellChecker()`.
SpellPassed(d) == CHOOSE s \in 1..spellCount : <<d, s>> \in docSpell

\* The tasks of a pool are taken from its queue in the order of submission.
RunningDocs == { d \in 1..Len(docs) : docState[d] = "running" }
RunningChunks(d) == { i \in 1..Len(docs[d].chunks) : chunkState[d][i] = "running" }

\* A pool worker takes document d: process_single_document creates its
\* SpellChecker and goes up to the inner executor.map, or to the early return
\* for a document without chunks.
StartDocument(d) ==
    /\ epc = "mapping"
    /\ docState[d] = "queued"
    /\ \A e \in 1..(d - 1) : docState[e] # "queued"
    /\ Cardinality(RunningDocs) < poolSize
    /\ IF docs[d].chunks = <<>>
       THEN /\ docState' = [docState EXCEPT ![d] = "done"]
            /\ docResult' = [docResult EXCEPT ![d] = Some([docs[d] EXCEPT !.keywords = <<>>])]
            /\ docOrder' = Append(docOrder, d)
       ELSE /\ docState' = [docState EXCEPT ![d] = "running"]
            /\ UNCHANGED <<docResult, docOrder>>
    /\ UNCHANGED <<docs, cpuCount, epc, poolSize, chunkState, chunkResult,
                   chunkOrder, records, nextUuid>>
    /\ spellCount' = spellCount + 1
    /\ docSpell' = docSpell \cup { <<d, spellCount + 1>> }
    /\ UNCHANGED chunkSpell
    /\ UNCHANGED <<assembleVars, storeVars, jobVars, keywordVars, embedVars, failVars, normVars, chunkVars>>

\* A thread of document d's inner pool takes chunk i.
StartChunk(d, i) ==
    /\ docState[d] = "running"
    /\ chunkState[d][i] = "pending"
    /\ \A j \in 1..(i - 1) : chunkState[d][j] # "pending"
    /\ Cardinality(RunningChunks(d)) < InnerPoolSize(docs[d])
    /\ chunkState' = [chunkState EXCEPT ![d][i] = "running"]
    /\ UNCHANGED <<docs, cpuCount, epc, poolSize, docState, chunkResult,
                   chunkOrder, docResult, docOrder, records, nextUuid>>
    /\ chunkSpell' = chunkSpell \cup { <<d, i, SpellPassed(d)>> }
    /\ UNCHANGED <<spellCount, docSpell>>
    /\ UNCHANGED <<assembleVars, storeVars, jobVars, keywordVars, embedVars, failVars, normVars, chunkVars>>

\* process_single_chunk returns for chunk i of document d.
FinishChunk(d, i) ==
    /\ docState[d] = "running"
    /\ chunkState[d][i] = "running"
    /\ chunkState' = [chunkState EXCEPT ![d][i] = "done"]
    /\ chunkResult' = [chunkResult EXCEPT
                          ![d][i] = Some(ProcessSingleChunk(docs[d].chunks[i]))]
    /\ chunkOrder' = [chunkOrder EXCEPT ![d] = Append(@, i)]
    /\ UNCHANGED <<docs, cpuCount, epc, poolSize, docState, docResult, docOrder,
                   records, nextUuid>>
    /\ UNCHANGED <<assembleVars, storeVars, jobVars, keywordVars, embedVars, failVars, spellVars, normVars, chunkVars>>

\* process_single_document after the inner executor.map: all chunk futures
\* are done, the results are listed, the keywords extracted, the doc returned.
FinishDocument(d) ==
    /\ docState[d] = "running"
    /\ \A i \in 1..Len(docs[d].chunks) : chunkState[d][i] = "done"
    /\ LET enriched_chunks == MapResults(chunkResult[d], chunkOrder[d])
       IN  docResult' = [docResult EXCEPT
                            ![d] = Some(EnrichedDocument(docs[d], enriched_chunks))]
    /\ docState' = [docState EXCEPT ![d] = "done"]
    /\ docOrder' = Append(docOrder, d)
    /\ UNCHANGED <<docs, cpuCount, epc, poolSize, chunkState, chunkResult,
                   chunkOrder, records, nextUuid>>
    /\ UNCHANGED <<assembleVars, storeVars, jobVars, keywordVars, embedVars, failVars, spellVars, normVars, chunkVars>>

\* enrich_chunks after the outer executor.map: to_chunk_records and return.
EnrichFinish ==
    /\ epc = "mapping"
    /\ \A d \in 1..Len(docs) : docState[d] = "done"
    /\ LET enriched_docs == MapResults(docResult, docOrder)
           chunk_records == ToChunkRecords(enriched_docs, nextUuid)
       IN  /\ records' = chunk_records
           /\ nextUuid' = nextUuid + Len(chunk_records)
    /\ epc' = "done"
    /\ UNCHANGED <<docs, cpuCount, poolSize, docState, chunkState, chunkResult,
                   chunkOrder, docResult, docOrder>>
    /\ UNCHANGED <<assembleVars, storeVars, jobVars, keywordVars, embedVars, failVars, spellVars, normVars, chunkVars>>

EnrichNext ==
    \/ EnrichStart
    \/ \E d \in 1..Len(docs) : StartDocument(d)
    \/ \E d \in 1..Len(docs) : \E i \in 1..Len(docs[d].chunks) : StartChunk(d, i)
    \/ \E d \in 1..Len(docs) : \E i \in 1..Len(docs[d].chunks) : FinishChunk(d, i)
    \/ \E d \in 1..Len(docs) : FinishDocument(d)
    \/ EnrichFinish

SpecEnrich == EnrichInit /\ [][EnrichNext]_vars

----------------------------------------------------------------------------
(* chunk_enricher.py when a worker raises.  No function of the module catches
   an exception: it leaves process_single_chunk, then the executor.map of its
   document when the results are listed up to it, then the `with` block once
   the running workers have returned, and so on up to enrich_chunks. *)

\* The exception of a document, whichever of its chunks raised it.
ExceptionOfDocument(d, i) == <<d, 0>>

\* The exception raised while chunk i of document d was processed (i = 0:
\* raised by process_single_document itself).
Exception(d, i) == <<d, i>>

\* The chunks of document d whose future holds an exception.
RaisedChunks(d) == { i \in 1..Len(docs[d].chunks) : chunkState[d][i] = "raised" }

\* The documents whose future holds an exception.
RaisedDocs == { d \in 1..Len(docs) : docState[d] = "raised" }

\* The exception list(executor.map(...)) raises: the results are consumed in
\* the order of the items, so it is that of the first raised future in that
\* order.
FirstInOrder(raised) ==
    CHOOSE r \in raised : \A q \in raised : r <= q

\* process_single_chunk raises for chunk i of document d.
ChunkRaises(d, i) ==
    /\ docState[d] = "running"
    /\ chunkState[d][i] = "running"
    /\ chunkState' = [chunkState EXCEPT ![d][i] = "raised"]
    /\ chunkOrder' = [chunkOrder EXCEPT ![d] = Append(@, i)]
    /\ UNCHANGED <<docs, cpuCount, epc, poolSize, docState, chunkResult,
                   docResult, docOrder, records, nextUuid>>
    /\ UNCHANGED <<assembleVars, storeVars, jobVars, keywordVars, embedVars, failVars, spellVars, normVars, chunkVars>>

\* The inner executor.map of document d meets a raised future: the futures
\* before it are done, the running threads have returned (shutdown waits for
\* them), the pending ones are cancelled, and process_single_document raises.
DocumentRaises(d) ==
    /\ docState[d] = "running"
    /\ RaisedChunks(d) # {}
    /\ LET i == FirstInOrder(RaisedChunks(d))
       IN  /\ \A j \in 1..(i - 1) : chunkState[d][j] = "done"
           /\ docErrors' = docErrors \cup { <<d, Exception(d, i)>> }
    /\ RunningChunks(d) = {}
    /\ docState' = [docState EXCEPT ![d] = "raised"]
    /\ docOrder' = Append(docOrder, d)
    /\ UNCHANGED callError
    /\ UNCHANGED <<docs, cpuCount, epc, poolSize, chunkState, chunkResult,
                   chunkOrder, docResult, records, nextUuid>>
    /\ UNCHANGED <<assembleVars, storeVars, jobVars, keywordVars, embedVars, spellVars, normVars, chunkVars>>

\* process_single_document raises outside the chunk workers, after they are
\* all done (extract_keywords raises).
DocumentFails(d) ==
    /\ docState[d] = "running"
    /\ \A i \in 1..Len(docs[d].chunks) : chunkState[d][i] = "done"
    /\ docErrors' = docErrors \cup { <<d, Exception(d, 0)>> }
    /\ docState' = [docState EXCEPT ![d] = "raised"]
    /\ docOrder' = Append(docOrder, d)
    /\ UNCHANGED callError
    /\ UNCHANGED <<docs, cpuCount, epc, poolSize, chunkState, chunkResult,
                   chunkOrder, docResult, records, nextUuid>>
    /\ UNCHANGED <<assembleVars, storeVars, jobVars, keywordVars, embedVars, spellVars, normVars, chunkVars>>

\* The outer executor.map meets a raised future: enrich_chunks raises its
\* exception, before to_chunk_records is reached.
EnrichRaises ==
    /\ epc = "mapping"
    /\ RaisedDocs # {}
    /\ LET d == FirstInOrder(RaisedDocs)
       IN  /\ \A e \in 1..(d - 1) : docState[e] = "done"
           /\ \E x \in docErrors :
                 /\ x[1] = d
                 /\ callError' = Some(x[2])
    /\ RunningDocs = {}
    /\ epc' = "raised"
    /\ UNCHANGED docErrors
    /\ UNCHANGED <<docs, cpuCount, poolSize, docState, chunkState, chunkResult,
                   chunkOrder, docResult, docOrder, records, nextUuid>>
    /\ UNCHANGED <<assembleVars, storeVars, jobVars, keywordVars, embedVars, spellVars, normVars, chunkVars>>

EnrichFailNext ==
    \/ EnrichNext
    \/ \E d \in 1..Len(docs) : \E i \in 1..Len(docs[d].chunks) : ChunkRaises(d, i)
    \/ \E d \in 1..Len(docs) : DocumentRaises(d)
    \/ \E d \in 1..Len(docs) : DocumentFails(d)
    \/ EnrichRaises

\* The batches of the runs in which workers may raise: a document with
\* chunks, another one, and one without chunks.
FailDocumentPool ==
    { Document("d1", None, <<Raw1, Raw3>>),
      Document("d2", None, <<Raw3, Raw2>>),
      Document("d2", None, <<>>) }

FailBatches == UNION { [1..n -> FailDocumentPool] : n \in 0..MaxDocs }

EnrichFailInit == EnrichInit /\ docs \in FailBatches

SpecEnrichFail == EnrichFailInit /\ [][EnrichFailNext]_vars

----------------------------------------------------------------------------
(* storage.py, and the vector store (Qdrant) as upsert_chunks uses it. *)

\* VECTOR_DB_EMBEDDING_SIZE
VectorSize == 2

\* models.Distance.COSINE
Cosine == "Cosine"

\* The keys of a chunk record, spelled out: `k not in ("embedding")` tests a
\* key against the string "embedding" (the parentheses make no tuple).
KeyChars ==
    [chunk_id    |-> <<"c","h","u","n","k","_","i","d">>,
     chunk_index |-> <<"c","h","u","n","k","_","i","n","d","e","x">>,
     chunk_text  |-> <<"c","h","u","n","k","_","t","e","x","t">>,
     doc_id      |-> <<"d","o","c","_","i","d">>,
     source      |-> <<"s","o","u","r","c","e">>,
     type        |-> <<"t","y","p","e">>,
     title       |-> <<"t","i","t","l","e">>,
     location    |-> <<"l","o","c","a","t","i","o","n">>,
     created_at  |-> <<"c","r","e","a","t","e","d","_","a","t">>,
     fetched_at  |-> <<"f","e","t","c","h","e","d","_","a","t">>,
     language    |-> <<"l","a","n","g","u","a","g","e">>,
     keywords    |-> <<"k","e","y","w","o","r","d","s">>,
     embedding   |-> <<"e","m","b","e","d","d","i","n","g">>]

\* Python's `a in b` for two strings: a is a substring of b.
IsSubstring(a, b) ==
    \E i \in 1..(Len(b) - Len(a) + 1) : SubSeq(b, i, i + Len(a) - 1) = a

\* The payload with every item of the record, the embedding included.
PayloadOfAllItems(chunk) == chunk

\* {k: v for k, v in chunk.items() if k not in ("embedding")}
PayloadOf(chunk) ==
    [k \in { key \in DOMAIN chunk :
               ~IsSubstring(KeyChars[key], KeyChars["embedding"]) }
        |-> chunk[k]]

\* The point with the chunk's position in its document as id.
PointOfByIndex(chunk) ==
    [id |-> <<"id", chunk.chunk_index>>,
     vector |-> chunk.embedding,
     payload |-> PayloadOf(chunk)]

\* models.PointStruct(id=chunk["chunk_id"], vector=chunk["embedding"], payload=...)
PointOf(chunk) ==
    [id |-> chunk.chunk_id,
     vector |-> chunk.embedding,
     payload |-> PayloadOf(chunk)]

\* points = [PointStruct(...) for chunk in chunk_records]
PointsOf(chunk_records) ==
    [i \in 1..Len(chunk_records) |-> PointOf(chunk_records[i])]

\* A request to the vector store, with whether the collection existed when it
\* arrived.
Call(op, coll) == [op |-> op, existed |-> coll # None]

\* create_collection_if_not_exists without the create_collection call.
GetCollectionOnly(coll) ==
    [collection |-> coll, calls |-> << Call("get_collection", coll) >>]

\* create_collection_if_not_exists(): get_collection raises for an absent
\* collection, and the handler then creates it.
CreateCollectionIfNotExists(coll) ==
    IF coll # None
    THEN [collection |-> coll, calls |-> << Call("get_collection", coll) >>]
    ELSE [collection |-> Some([size |-> VectorSize, distance |-> Cosine]),
          calls |-> << Call("get_collection", coll),
                       Call("create_collection", coll) >>]

RECURSIVE QdrantUpsert(_, _, _)
\* client.upsert(collection_name, points) in the store: each point replaces the
\* point of the same id or is added; an absent collection takes no point.
QdrantUpsert(coll, pts, batch) ==
    IF coll = None \/ batch = <<>> THEN pts
    ELSE QdrantUpsert(coll,
                      { p \in pts : p.id # Head(batch).id } \cup { Head(batch) },
                      Tail(batch))

\* upsert_chunks(chunk_records): the store after the call and the requests sent.
UpsertChunksResult(coll, pts, chunk_records) ==
    LET client == CreateCollectionIfNotExists(coll)
        batch == PointsOf(chunk_records)
    IN  [collection |-> client.collection,
         points |-> QdrantUpsert(client.collection, pts, batch),
         calls |-> Append(client.calls, Call("upsert", client.collection))]

\* A chunk record as to_chunk_records and embed_chunks leave it.
ChunkRecord(id, index, text, doc, keywords, embedding) ==
    WithEmbedding(ToChunkRecord(id, index, text, [doc EXCEPT !.keywords = keywords]),
                  embedding)

\* The records a caller may hand to upsert_chunks: two ids, each in two
\* versions that differ in text, metadata, keywords and vector.
CallerRecords ==
    { ChunkRecord(<<"id", n>>, 0, <<"a">>, Document("d1", None, <<>>), <<>>, <<0, 1>>) :
        n \in 1..2 }
    \cup
    { ChunkRecord(<<"id", n>>, 1, <<"b", "b">>, Document("d2", Some("web"), <<>>),
                  << <<"b", "b">> >>, <<1, 0>>) : n \in 1..2 }

\* The batches of a caller: none, one or two records, ids repeated or not.
CallerBatches ==
    { <<>> } \cup { <<r>> : r \in CallerRecords }
             \cup { <<r1, r2>> : r1 \in CallerRecords, r2 \in CallerRecords }

StoreInit ==
    /\ collection \in { None, Some([size |-> VectorSize, distance |-> Cosine]) }
    /\ points = {}
    /\ lastCalls = <<>>
    /\ history = <<>>
    /\ AssembleIdle
    /\ EnrichIdle
    /\ JobIdle
    /\ KeywordsIdle
    /\ EmbedIdle
    /\ FailIdle
    /\ SpellIdle
    /\ NormIdle
    /\ ChunkIdle

\* upsert_chunks(chunk_records), for a batch of the caller's
UpsertChunks(chunk_records) ==
    /\ Len(history) < MaxUpserts
    /\ LET res == UpsertChunksResult(collection, points, chunk_records)
       IN  /\ collection' = res.collection
           /\ points' = res.points
           /\ lastCalls' = res.calls
    /\ history' = Append(history, chunk_records)
    /\ UNCHANGED <<assembleVars, enrichVars, jobVars, keywordVars, embedVars, failVars, spellVars, normVars, chunkVars>>

StoreNext == \E b \in CallerBatches : UpsertChunks(b)

SpecStore == StoreInit /\ [][StoreNext]_vars


----------------------------------------------------------------------------
(* chunker.py, embedder.py and pipeline.py: the indexing job. *)

\* int(get_env_var("TOKENIZATION_CHUNK_SIZE")), ..._CHUNK_OVERLAP
ChunkSize == 8
ChunkOverlap == 2

\* CharacterTextSplitter's separator
Separator == <<NL, NL>>

\* The splitter's length function: the number of tokens of the encoding, here
\* one token per character.
TokenLen(text) == Len(text)

RECURSIVE SplitOnSeparator(_)
\* [s for s in re.split(separator, text) if s != ""]
SplitOnSeparator(text) ==
    LET at == { i \in 1..(Len(text) - 1) : text[i] = NL /\ text[i + 1] = NL }
    IN  IF at = {} THEN (IF text = <<>> THEN <<>> ELSE <<text>>)
        ELSE LET i == CHOOSE k \in at : \A j \in at : k <= j
                 piece == SubSeq(text, 1, i - 1)
             IN  (IF piece = <<>> THEN <<>> ELSE <<piece>>)
                     \o SplitOnSeparator(SubSeq(text, i + 2, Len(text)))

\* _join_docs: the joined and stripped text, None when nothing is left
JoinDocs(current_doc) ==
    LET text == Strip(Join(Separator, current_doc))
    IN  IF text = <<>> THEN None ELSE Some(text)

SepLenIf(cond) == IF cond THEN TokenLen(Separator) ELSE 0

RECURSIVE PopOverlap(_, _, _)
\* The `while total > chunk_overlap or (...)` loop of _merge_splits.
PopOverlap(current_doc, total, len_d) ==
    IF current_doc # <<>> /\
       (\/ total > ChunkOverlap
        \/ /\ total + len_d + SepLenIf(Len(current_doc) > 0) > ChunkSize
           /\ total > 0)
    THEN PopOverlap(Tail(current_doc),
                    total - (TokenLen(current_doc[1]) + SepLenIf(Len(current_doc) > 1)),
                    len_d)
    ELSE [current_doc |-> current_doc, total |-> total]

RECURSIVE MergeSplits(_, _, _, _)
\* _merge_splits(splits, separator), from the state (docs, current_doc, total)
MergeSplits(splits, out, current_doc, total) ==
    IF splits = <<>>
    THEN out \o JoinDocs(current_doc)
    ELSE LET d == Head(splits)
             len_d == TokenLen(d)
             full == total + len_d + SepLenIf(Len(current_doc) > 0) > ChunkSize
             flush == full /\ Len(current_doc) > 0
             popped == IF flush THEN PopOverlap(current_doc, total, len_d)
                       ELSE [current_doc |-> current_doc, total |-> total]
             cur == Append(popped.current_doc, d)
         IN  MergeSplits(Tail(splits),
                         IF flush THEN out \o JoinDocs(current_doc) ELSE out,
                         cur,
                         popped.total + len_d + SepLenIf(Len(cur) > 1))

\* text_splitter.split_text(content)
SplitText(content) == MergeSplits(SplitOnSeparator(content), <<>>, <<>>, 0)

\* A document of the MongoDB collection.
MongoDocument(id, source, content) ==
    [document_id |-> id, content |-> content, source |-> source, type |-> None,
     title |-> None, location |-> None, created_at |-> None,
     fetched_at |-> None, language |-> None]

\* chunk_text(documents): doc["chunks"] = split_text(doc["content"]).  The
\* key keywords, which no document has yet, reads as doc.get("keywords", []).
ChunkText(documents) ==
    [d \in 1..Len(documents) |->
        [k \in DOMAIN documents[d] \cup {"chunks", "keywords"} |->
            IF k = "chunks" THEN SplitText(documents[d].content)
            ELSE IF k = "keywords" THEN <<>>
            ELSE documents[d][k]]]

\* process_single_document(doc), its chunk futures listed by executor.map
ProcessSingleDocument(doc) ==
    IF doc.chunks = <<>> THEN [doc EXCEPT !.keywords = <<>>]
    ELSE EnrichedDocument(doc,
             MapResults([i \in 1..Len(doc.chunks) |->
                            Some(ProcessSingleChunk(doc.chunks[i]))],
                        [i \in 1..Len(doc.chunks) |-> i]))

\* model.encode(text).tolist(): a vector of the configured width that depends
\* on the text alone.
Encode(text) ==
    << Len(text), Cardinality({ i \in 1..Len(text) : text[i] = "b" }) >>

\* embed_chunks(chunk_records)
EmbedChunks(chunk_records) ==
    [k \in 1..Len(chunk_records) |->
        WithEmbedding(chunk_records[k], Encode(chunk_records[k].chunk_text))]

MongoContents ==
    { <<>>,
      <<"A", "b", SP, "b", ".">>,
      <<"b", "b", SP, "a", "b", NL, NL, "b", "e", "e", "-", "b", NL, NL, "A", "b", SP, "a", "b">> }

MongoDocuments ==
    { MongoDocument(id, None, c) : id \in {"d1", "d2"}, c \in MongoContents }

MongoCollections == UNION { [1..n -> MongoDocuments] : n \in 0..MaxDocs }

JobInit ==
    /\ mongoDocs \in MongoCollections
    /\ jobRuns = 0
    /\ jobStatus = "none"
    /\ AssembleIdle
    /\ StoreIdle
    /\ EnrichIdle
    /\ KeywordsIdle
    /\ EmbedIdle
    /\ FailIdle
    /\ SpellIdle
    /\ NormIdle
    /\ ChunkIdle

\* run_indexing_job(): load, chunk, enrich, embed, upsert.  enrich_chunks
\* raises for an empty batch (max_workers = 0) and the job ends there.
RunIndexingJob ==
    /\ jobRuns < MaxRuns
    /\ jobRuns' = jobRuns + 1
    /\ LET documents == ChunkText(mongoDocs)
       IN  IF OuterPoolSize(documents, cpuCount) <= 0
           THEN /\ jobStatus' = "failed"
                /\ UNCHANGED <<storeVars, nextUuid>>
           ELSE LET enriched_docs ==
                        [d \in 1..Len(documents) |-> ProcessSingleDocument(documents[d])]
                    chunk_records ==
                        EmbedChunks(ToChunkRecords(enriched_docs, nextUuid))
                    res == UpsertChunksResult(collection, points, chunk_records)
                IN  /\ nextUuid' = nextUuid + Len(chunk_records)
                    /\ collection' = res.collection
                    /\ points' = res.points
                    /\ lastCalls' = res.calls
                    /\ history' = Append(history, chunk_records)
                    /\ jobStatus' = "ok"
    /\ UNCHANGED <<docs, cpuCount, epc, poolSize, docState, chunkState,
                   chunkResult, chunkOrder, docResult, docOrder, records>>
    /\ UNCHANGED <<assembleVars, mongoDocs, keywordVars, embedVars, failVars, spellVars, normVars, chunkVars>>

JobNext == RunIndexingJob

SpecJob == JobInit /\ [][JobNext]_vars

----------------------------------------------------------------------------
(* chunker.py: chunk_text on one document. *)

\* The paragraphs of the contents: short ones, one with blanks around it and
\* one longer than ChunkSize.
Paragraphs ==
    { <<"a">>,
      <<"a", "b", SP, "b">>,
      <<SP, "b", SP>>,
      <<"a", "b", "a", "b", SP, "a", "b", "a", "b">> }

\* The contents: up to MaxParagraphs paragraphs with a blank line between.
Contents ==
    { Join(Separator, ps) : ps \in UNION { [1..n -> Paragraphs] : n \in 0..MaxParagraphs } }

ChunkInit ==
    /\ cContent \in Contents
    /\ cpc = "ready"
    /\ cSegments = <<>>
    /\ AssembleIdle
    /\ StoreIdle
    /\ EnrichIdle
    /\ JobIdle
    /\ KeywordsIdle
    /\ EmbedIdle
    /\ FailIdle
    /\ SpellIdle
    /\ NormIdle

\* chunk_text([doc]): doc["chunks"] = text_splitter.split_text(doc["content"])
ChunkTextCall ==
    /\ cpc = "ready"
    /\ cSegments' = ChunkText(<< MongoDocument("d1", None, cContent) >>)[1].chunks
    /\ cpc' = "done"
    /\ UNCHANGED cContent
    /\ UNCHANGED <<assembleVars, storeVars, enrichVars, jobVars, keywordVars, embedVars, failVars, spellVars, normVars>>

ChunkNext == ChunkTextCall

SpecChunk == ChunkInit /\ [][ChunkNext]_vars

----------------------------------------------------------------------------
(* embedder.py: embed_chunks, one record of the loop at a time. *)

\* The loop body with a new list built at every pass, holding the embedding
\* of record k alone.
AttachEmbeddingToCopy(chunk_records, original, k) ==
    [original EXCEPT ![k] = WithEmbedding(@, Encode(@.chunk_text))]

\* The loop body for record k, after model.encode(text) returned:
\* chunk["embedding"] = embedding.tolist(), on the dict of the caller's list.
AttachEmbedding(chunk_records, original, k) ==
    [chunk_records EXCEPT ![k] = WithEmbedding(@, Encode(@.chunk_text))]

\* The records a caller may hand to embed_chunks, as to_chunk_records builds
\* them.
EmbedRecordPool ==
    { ToChunkRecord(Uuid4(1), 0, <<"a", "b">>, Document("d1", None, <<>>)),
      ToChunkRecord(Uuid4(2), 1, <<"b">>, Document("d1", None, <<>>)),
      ToChunkRecord(Uuid4(3), 0, <<>>, Document("d2", Some("web"), <<>>)) }

EmbedBatches == UNION { [1..n -> EmbedRecordPool] : n \in 0..MaxRecords }

EmbedInit ==
    /\ embInput \in EmbedBatches
    /\ embRecords = embInput
    /\ embPos = 0
    /\ embStatus = "ready"
    /\ AssembleIdle
    /\ StoreIdle
    /\ EnrichIdle
    /\ JobIdle
    /\ KeywordsIdle
    /\ FailIdle
    /\ SpellIdle
    /\ NormIdle
    /\ ChunkIdle

\* embed_chunks up to the loop: load_embedder() returned the model.
EmbedStart ==
    /\ embStatus = "ready"
    /\ embStatus' = "running"
    /\ UNCHANGED <<embInput, embRecords, embPos>>
    /\ UNCHANGED <<assembleVars, storeVars, enrichVars, jobVars, keywordVars, failVars, spellVars, normVars, chunkVars>>

\* One pass of the loop in which model.encode returns.
EncodeReturns ==
    /\ embStatus = "running"
    /\ embPos < Len(embRecords)
    /\ embRecords' = AttachEmbedding(embRecords, embInput, embPos + 1)
    /\ embPos' = embPos + 1
    /\ UNCHANGED <<embInput, embStatus>>
    /\ UNCHANGED <<assembleVars, storeVars, enrichVars, jobVars, keywordVars, failVars, spellVars, normVars, chunkVars>>

\* One pass of the loop in which model.encode raises: nothing catches the
\* exception and embed_chunks is left with it.
EncodeRaises ==
    /\ embStatus = "running"
    /\ embPos < Len(embRecords)
    /\ embStatus' = "raised"
    /\ UNCHANGED <<embInput, embRecords, embPos>>
    /\ UNCHANGED <<assembleVars, storeVars, enrichVars, jobVars, keywordVars, failVars, spellVars, normVars, chunkVars>>

\* The loop is over: return chunk_records.
EmbedReturn ==
    /\ embStatus = "running"
    /\ embPos = Len(embRecords)
    /\ embStatus' = "done"
    /\ UNCHANGED <<embInput, embRecords, embPos>>
    /\ UNCHANGED <<assembleVars, storeVars, enrichVars, jobVars, keywordVars, failVars, spellVars, normVars, chunkVars>>

EmbedNext ==
    \/ EmbedStart
    \/ EncodeReturns
    \/ EncodeRaises
    \/ EmbedReturn

SpecEmbed == EmbedInit /\ [][EmbedNext]_vars

----------------------------------------------------------------------------
(* Properties of the context assembler. *)

\* The snippets of all hits, in rank order.
SnippetsOf(hs, include) == [i \in 1..Len(hs) |-> Snippet(hs[i], include)]

\* The concatenation of the first k snippets.
PrefixText(snips, k) == Concat(SubSeq(snips, 1, k))

\* The number of snippets before the first one that does not fit after its
\* predecessors (all of them if each fits).
GreedyCut(snips, max) ==
    LET over == { j \in 1..Len(snips) :
                    Len(PrefixText(snips, j - 1)) + Len(snips[j]) > max }
    IN  IF over = {} THEN Len(snips)
        ELSE (CHOOSE j \in over : \A o \in over : j <= o) - 1

\* s ends with t
EndsWith(s, t) ==
    /\ Len(s) >= Len(t)
    /\ SubSeq(s, Len(s) - Len(t) + 1, Len(s)) = t

\* C1: the assembled context is the concatenation, in rank order, of the
\* snippets of the hits before the first one that would exceed max_chars, and
\* of no hit after it, even one that would fit.
C1_GreedyTruncation ==
    apc = "done" =>
        LET snips == SnippetsOf(hits, IncludeMetadata(envIncludeMeta))
            k == GreedyCut(snips, maxContextChars)
        IN  /\ appended = k
            /\ context = PrefixText(snips, k)

\* C1 witness: the loop stopped at a hit that did not fit although a later
\* hit would have fitted.
C1_Witness ==
    /\ apc = "done"
    /\ appended >= 1
    /\ appended + 1 < Len(hits)
    /\ \E j \in (appended + 2)..Len(hits) :
          Len(context) + Len(Snippet(hits[j], IncludeMetadata(envIncludeMeta)))
              <= maxContextChars

\* C2 as stated: the value build_prompt_context returns is at most max_chars
\* long.
C2_PromptWithinBudget ==
    apc = "done" => Len(prompt) <= maxContextChars

\* C2 amended: for max_chars >= 0 the context that is rendered into the
\* returned prompt is at most max_chars long.
C2_ContextWithinBudget ==
    (apc = "done" /\ maxContextChars >= 0) => Len(context) <= maxContextChars

\* C2 witness: several hits were appended, the budget cut the list and the
\* context fills the budget exactly.
C2_Witness ==
    /\ apc = "done"
    /\ appended >= 2
    /\ appended < Len(hits)
    /\ Len(context) = maxContextChars

\* C10 as stated: every appended snippet ends with the hit's chunk text
\* followed by a newline, whatever include_metadata is.
C10_SnippetEndsWithNewline ==
    apc = "done" =>
        \A i \in 1..appended :
            EndsWith(Snippet(hits[i], IncludeMetadata(envIncludeMeta)),
                     ChunkTextOf(hits[i].payload) \o <<NL>>)

\* The four metadata keys in the order of the metadata line, with their labels.
MetaKeys == <<"location", "source", "doc_id", "created_at">>
MetaLabel(k) ==
    CASE k = "location" -> LocationLabel
      [] k = "source" -> SourceLabel
      [] k = "doc_id" -> DocIdLabel
      [] k = "created_at" -> CreatedAtLabel

\* The key is on the payload, whatever its value.
KeyPresent(payload, k) == payload # NoPayload /\ payload[1][k] # Absent

\* The key is on the payload with a non-empty value.
KeyNonEmpty(payload, k) == KeyPresent(payload, k) /\ payload[1][k][1] # <<>>

\* The chunk text of a payload, empty without payload or without the key.
BodyOf(payload) ==
    IF KeyPresent(payload, "chunk_text") THEN payload[1].chunk_text[1] ELSE <<>>

\* The snippet that lists, labelled and comma-joined on one line, the keys in
\* listed (a subsequence of MetaKeys), followed by the body; no line at all
\* when listed is empty.
LinedSnippet(payload, listed) ==
    LET entries == [i \in 1..Len(listed) |->
                       MetaLabel(listed[i]) \o payload[1][listed[i]][1]]
    IN  (IF listed = <<>> THEN <<>> ELSE Join(CommaSpace, entries) \o <<NL>>)
            \o BodyOf(payload)

----------------------------------------------------------------------------
(* Properties of the indexing sink. *)

\* All records handed to upsert_chunks so far, oldest first.
Submitted == Concat(history)

\* The most recently submitted record that carries chunk_id id.
LastSubmitted(id) ==
    LET at == { i \in 1..Len(Submitted) : Submitted[i].chunk_id = id }
    IN  Submitted[CHOOSE i \in at : \A j \in at : j <= i]

\* A record's fields other than embedding.
WithoutEmbedding(r) == [k \in DOMAIN r \ {"embedding"} |-> r[k]]

\* C5 (state part): the store holds exactly one point per submitted chunk_id
\* and none else, and that point has the vector and the payload of the most
\* recent record submitted under the chunk_id.
C5_OnePointPerChunkId ==
    /\ \A p \in points : \E i \in 1..Len(Submitted) : Submitted[i].chunk_id = p.id
    /\ \A i \in 1..Len(Submitted) :
          LET id == Submitted[i].chunk_id
              r == LastSubmitted(id)
          IN  { p \in points : p.id = id } =
                  { [id |-> id, vector |-> r.embedding,
                     payload |-> WithoutEmbedding(r)] }

\* C5 (step part): an upsert_chunks call with the batch of the call before it
\* leaves the points as they were.
C5_ResubmitUnchanged ==
    (/\ history # <<>>
     /\ history' = Append(history, history[Len(history)]))
        => points' = points

\* C5: upsert is idempotent per chunk_id.
C5_UpsertIdempotent ==
    [](C5_OnePointPerChunkId) /\ [][C5_ResubmitUnchanged]_vars

\* C5 witness: a chunk_id was submitted twice with different vectors and
\* payloads, and then the last batch was submitted again.
C5_Witness ==
    /\ Len(history) >= 2
    /\ history[Len(history)] # <<>>
    /\ \E i, j \in 1..Len(Submitted) :
          /\ i < j
          /\ Submitted[i].chunk_id = Submitted[j].chunk_id
          /\ Submitted[i].embedding # Submitted[j].embedding
          /\ Submitted[i].chunk_text # Submitted[j].chunk_text
    /\ history[Len(history)] = history[Len(history) - 1]

\* C8 as stated: an upsert_chunks call with no records creates no collection
\* and sends no write to the store.
C8_EmptyUpsertNoSideEffect ==
    [][(history' = Append(history, <<>>)) =>
          /\ collection' = collection
          /\ points' = points
          /\ \A i \in 1..Len(lastCalls') :
                lastCalls'[i].op \notin {"create_collection", "upsert"}]_vars

\* C9: every write of upsert_chunks reaches a collection that exists, having
\* been found by get_collection or else created just before with the
\* configured vector width and the cosine metric.
C9_CollectionBeforeWrite ==
    \A i \in 1..Len(lastCalls) :
        lastCalls[i].op = "upsert" =>
            /\ lastCalls[i].existed
            /\ collection # None
            /\ \E j \in 1..(i - 1) :
                  \/ lastCalls[j].op = "get_collection" /\ lastCalls[j].existed
                  \/ /\ lastCalls[j].op = "create_collection"
                     /\ collection = Some([size |-> VectorSize, distance |-> Cosine])

\* C9 witness: the collection was absent, was created, and points were
\* written to it.
C9_Witness ==
    /\ \E i \in 1..Len(lastCalls) : lastCalls[i].op = "create_collection"
    /\ \E i \in 1..Len(lastCalls) : lastCalls[i].op = "upsert"
    /\ points # {}

----------------------------------------------------------------------------
(* Properties of the enrichment orchestrator. *)

RECURSIVE ChunksBefore(_)
\* The number of chunks of the documents before document d of the batch.
ChunksBefore(d) ==
    IF d <= 1 THEN 0 ELSE ChunksBefore(d - 1) + Len(docs[d - 1].chunks)

TotalChunks == ChunksBefore(Len(docs) + 1)

\* The output records that come from document d of the batch, in output order.
RecordsOfDocument(d) ==
    SubSeq(records, ChunksBefore(d) + 1, ChunksBefore(d) + Len(docs[d].chunks))

\* The output records that carry doc_id id, in output order.
RecordsOfDocId(id) ==
    LET at == { k \in 1..Len(records) : records[k].doc_id = id }
        Nth[n \in 0..Cardinality(at)] ==
            IF n = 0 THEN 0
            ELSE CHOOSE k \in at :
                    /\ k > Nth[n - 1]
                    /\ \A j \in at : j > Nth[n - 1] => k <= j
    IN  [n \in 1..Cardinality(at) |-> records[Nth[n]]]

\* The identifiers of the batch are pairwise different.
DistinctIds ==
    \A d, e \in 1..Len(docs) : docs[d].document_id = docs[e].document_id => d = e

\* The enriched chunks of document d, computed one after the other.
EnrichedChunksOf(d) ==
    [i \in 1..Len(docs[d].chunks) |-> ProcessSingleChunk(docs[d].chunks[i])]

\* C3: the records of a document with chunks c0..c(n-1) appear in the output
\* in chunk order, the i-th with chunk_index i and the enriched text of c_i,
\* whatever the order in which chunk and document tasks completed.
C3_OrderWithinDocument ==
    epc = "done" =>
        /\ Len(records) = TotalChunks
        /\ \A d \in 1..Len(docs) :
              LET recs == RecordsOfDocument(d)
              IN  \A i \in 1..Len(docs[d].chunks) :
                     /\ recs[i].doc_id = docs[d].document_id
                     /\ recs[i].chunk_index = i - 1
                     /\ recs[i].chunk_text = EnrichedChunksOf(d)[i]

\* C3 witness: a call returned after the chunks of a document, and the
\* documents themselves, completed in another order than they were submitted.
C3_Witness ==
    /\ epc = "done"
    /\ Len(docOrder) >= 2 /\ docOrder[1] > docOrder[2]
    /\ \E d \in 1..Len(docs) :
          /\ Len(chunkOrder[d]) >= 2
          /\ chunkOrder[d][1] > chunkOrder[d][2]
          /\ EnrichedChunksOf(d)[1] # EnrichedChunksOf(d)[2]

\* C4 as stated: any two records with the same doc_id carry the same keywords,
\* namely those extracted from the space-joined enriched chunks of the
\* document of that identifier, in every batch.
C4_KeywordsPerDocId ==
    epc = "done" =>
        /\ \A k, m \in 1..Len(records) :
              records[k].doc_id = records[m].doc_id =>
                  records[k].keywords = records[m].keywords
        /\ \A d \in 1..Len(docs) : \A k \in 1..Len(records) :
              records[k].doc_id = docs[d].document_id =>
                  records[k].keywords =
                      ExtractKeywords(Join(<<SP>>, EnrichedChunksOf(d)), KeywordTopN)

\* C4 amended: all records that come from one document of the batch carry the
\* keywords extracted once from its space-joined enriched chunks; records
\* with the same doc_id carry the same keywords when the identifiers of the
\* batch are distinct.
C4_KeywordsPerDocument ==
    epc = "done" =>
        /\ \A d \in 1..Len(docs) :
              LET recs == RecordsOfDocument(d)
              IN  \A i \in 1..Len(recs) :
                     /\ recs[i].doc_id = docs[d].document_id
                     /\ recs[i].keywords =
                          ExtractKeywords(Join(<<SP>>, EnrichedChunksOf(d)),
                                          KeywordTopN)
        /\ DistinctIds =>
              \A k, m \in 1..Len(records) :
                  records[k].doc_id = records[m].doc_id =>
                      records[k].keywords = records[m].keywords

\* C4 witness: a batch of two documents with different identifiers, different
\* non-empty keyword lists and several chunks each has been enriched.
C4_Witness ==
    /\ epc = "done"
    /\ Len(docs) = 2
    /\ DistinctIds
    /\ Len(docs[1].chunks) >= 2 /\ Len(docs[2].chunks) >= 2
    /\ records[1].keywords # <<>>
    /\ records[Len(records)].keywords # <<>>
    /\ records[1].keywords # records[Len(records)].keywords

\* The chunk_index values of a sequence of records are 0..n-1, each once.
DenseFromZero(recs, n) ==
    /\ Len(recs) = n
    /\ \A v \in 0..(n - 1) :
          Cardinality({ k \in 1..Len(recs) : recs[k].chunk_index = v }) = 1

\* C7 as stated: for every doc_id, the chunk_index values of its records are
\* exactly 0..n-1, n being the number of chunks of the document.
C7_DensePerDocId ==
    epc = "done" =>
        /\ Len(records) = TotalChunks
        /\ \A d \in 1..Len(docs) :
              DenseFromZero(RecordsOfDocId(docs[d].document_id),
                            Len(docs[d].chunks))

\* C7 amended: the records that come from each document of the batch have
\* the chunk_index values 0..n-1, each once (per doc_id when the identifiers
\* of the batch are distinct), and there are as many records as chunks.
C7_DensePerDocument ==
    epc = "done" =>
        /\ Len(records) = TotalChunks
        /\ \A d \in 1..Len(docs) :
              /\ DenseFromZero(RecordsOfDocument(d), Len(docs[d].chunks))
              /\ DistinctIds =>
                    DenseFromZero(RecordsOfDocId(docs[d].document_id),
                                  Len(docs[d].chunks))

\* C7 witness: a batch with a document of several chunks and a document of
\* none, under different identifiers, has been enriched.
C7_Witness ==
    /\ epc = "done"
    /\ DistinctIds
    /\ \E d, e \in 1..Len(docs) :
          /\ Len(docs[d].chunks) >= 2
          /\ Len(docs[e].chunks) = 0
    /\ Len(records) >= 2

\* The places in the batch of the documents that have chunks, in batch order.
NonEmptyDocs ==
    SelectSeq([d \in 1..Len(docs) |-> d], LAMBDA d : docs[d].chunks # <<>>)

\* The records of the batch with its chunkless documents left out.
RecordsWithoutEmptyDocs ==
    ToChunkRecords([k \in 1..Len(NonEmptyDocs) |->
                       EnrichedDocument(docs[NonEmptyDocs[k]],
                                        EnrichedChunksOf(NonEmptyDocs[k]))], 0)

\* Some worker or the orchestrator can take a step: the call is waiting to
\* start, or a queued task fits in its pool, or a running task can return, or
\* all documents are done and the records can be built.
CanProceed ==
    \/ epc = "ready"
    \/ /\ epc = "mapping"
       /\ \/ \A d \in 1..Len(docs) : docState[d] = "done"
          \/ \E d \in 1..Len(docs) :
                /\ docState[d] = "queued"
                /\ Cardinality(RunningDocs) < poolSize
          \/ \E d \in 1..Len(docs) :
                /\ docState[d] = "running"
                /\ \/ \E i \in 1..Len(docs[d].chunks) :
                         chunkState[d][i] = "running"
                   \/ \E i \in 1..Len(docs[d].chunks) :
                         /\ chunkState[d][i] = "pending"
                         /\ Cardinality(RunningChunks(d)) < InnerPoolSize(docs[d])
                   \/ \A i \in 1..Len(docs[d].chunks) :
                         chunkState[d][i] = "done"

\* C12: a batch that holds a document without chunks raises no error and can
\* always go on until it returns; on return that document has an empty
\* keyword list and no record, and the records are those of the batch
\* without it.
C12_EmptyDocumentNoError ==
    (\E d \in 1..Len(docs) : docs[d].chunks = <<>>) =>
        /\ epc # "error"
        /\ epc \in {"ready", "mapping"} => CanProceed
        /\ epc = "done" =>
              /\ \A d \in 1..Len(docs) :
                    docs[d].chunks = <<>> =>
                        /\ RecordsOfDocument(d) = <<>>
                        /\ docResult[d][1].keywords = <<>>
                        /\ \A k \in 1..Len(records) :
                              records[k].doc_id = docs[d].document_id =>
                                  \E e \in 1..Len(docs) :
                                      /\ docs[e].chunks # <<>>
                                      /\ docs[e].document_id = docs[d].document_id
              /\ records = RecordsWithoutEmptyDocs

\* C12 witness: a call returned for a batch whose first document has no
\* chunks and whose second has some.
C12_Witness ==
    /\ epc = "done"
    /\ Len(docs) = 2
    /\ docs[1].chunks = <<>>
    /\ docs[2].chunks # <<>>
    /\ Len(records) = Len(docs[2].chunks)

----------------------------------------------------------------------------
(* Properties of the indexing job. *)

\* C6 as stated: a second run of the indexing job over the same documents
\* gives every (document, chunk_index) the chunk_id of the first run, and the
\* store ends with one point per chunk.
C6_ReindexIdempotent ==
    (jobRuns = 2 /\ Len(history) = 2) =>
        /\ Len(history[1]) = Len(history[2])
        /\ \A k \in 1..Len(history[1]) :
              /\ history[2][k].doc_id = history[1][k].doc_id
              /\ history[2][k].chunk_index = history[1][k].chunk_index
              /\ history[2][k].chunk_id = history[1][k].chunk_id
        /\ Cardinality(points) = Len(history[2])

----------------------------------------------------------------------------
(* Properties of keyword extraction. *)

\* The retained words of kwText in text order: the whitespace-separated words
\* that are alphabetic and no stopword, lowercased.
RetainedWords ==
    LET kept == SelectSeq(WordTokenize(kwText),
                          LAMBDA w : IsAlpha(w) /\ Lower(w) \notin StopWords)
    IN  [i \in 1..Len(kept) |-> Lower(kept[i])]

\* How often w is retained, and where it is retained first.
Frequency(w) == Cardinality({ i \in 1..Len(RetainedWords) : RetainedWords[i] = w })
FirstSeen(w) ==
    CHOOSE i \in 1..Len(RetainedWords) :
        /\ RetainedWords[i] = w
        /\ \A j \in 1..(i - 1) : RetainedWords[j] # w

\* v comes before w: it is more frequent, or as frequent and seen first.
Before(v, w) ==
    \/ Frequency(v) > Frequency(w)
    \/ Frequency(v) = Frequency(w) /\ FirstSeen(v) < FirstSeen(w)

RetainedSet == { RetainedWords[i] : i \in 1..Len(RetainedWords) }

CatCatDog == <<"c", "a", "t", SP, "c", "a", "t", SP, "d", "o", "g">>

\* C13: extract_keywords returns the first top_n distinct retained words in
\* the order of descending frequency, ties in first-occurrence order: never
\* more than top_n words, none when top_n <= 0, and [cat, dog] for
\* "cat cat dog" with top_n = 2.
C13_KeywordsTopN ==
    kpc = "done" =>
        LET r == kwResult
            n == IF kwTopN <= 0 THEN 0
                 ELSE IF kwTopN <= Cardinality(RetainedSet) THEN kwTopN
                 ELSE Cardinality(RetainedSet)
        IN  /\ Len(r) = n
            /\ \A i \in 1..Len(r) : r[i] \in RetainedSet
            /\ \A i \in 1..(Len(r) - 1) : Before(r[i], r[i + 1])
            /\ \A w \in RetainedSet :
                  (\A i \in 1..Len(r) : r[i] # w) =>
                      \A i \in 1..Len(r) : Before(r[i], w)
            /\ (kwTopN >= 0 => Len(r) <= kwTopN)
            /\ (kwTopN <= 0 => r = <<>>)
            /\ (kwText = CatCatDog /\ kwTopN = 2 =>
                   r = << <<"c", "a", "t">>, <<"d", "o", "g">> >>)

\* C13 witness: a text in which two words tie and the later of them is cut
\* off by top_n, with a word dropped for being a stopword or not alphabetic.
C13_Witness ==
    /\ kpc = "done"
    /\ kwTopN >= 1
    /\ Len(kwResult) = kwTopN
    /\ Cardinality(RetainedSet) > kwTopN
    /\ Len(WordTokenize(kwText)) > Len(RetainedWords)
    /\ \E w \in RetainedSet :
          /\ \A i \in 1..Len(kwResult) : kwResult[i] # w
          /\ Frequency(w) = Frequency(kwResult[Len(kwResult)])

----------------------------------------------------------------------------
(* Properties of the embedder. *)

\* Record i of the caller's list has its fields as the caller built them.
FieldsKept(i) ==
    \A k \in DOMAIN embInput[i] :
        /\ k \in DOMAIN embRecords[i]
        /\ embRecords[i][k] = embInput[i][k]

\* C14: when model.encode fails on the k-th record (k counted from 0),
\* embed_chunks ends by raising; the records before k carry their embedding,
\* the records from k on carry none, and every record has its other fields
\* as they were.
C14_PartialEmbeddingOnFailure ==
    embStatus = "raised" =>
        /\ Len(embRecords) = Len(embInput)
        /\ \A i \in 1..Len(embRecords) :
              /\ FieldsKept(i)
              /\ DOMAIN embRecords[i] \subseteq DOMAIN embInput[i] \cup {"embedding"}
              /\ i <= embPos =>
                    /\ "embedding" \in DOMAIN embRecords[i]
                    /\ embRecords[i].embedding = Encode(embInput[i].chunk_text)
              /\ i > embPos => "embedding" \notin DOMAIN embRecords[i]

\* C14 (step part): a call that raised does not return afterwards.
C14_RaisedIsFinal ==
    embStatus = "raised" => embStatus' = "raised" /\ embRecords' = embRecords

\* C14: a failure of the embedding call on record k leaves a partly embedded
\* list and a raised call.
C14_EmbedFailure ==
    [](C14_PartialEmbeddingOnFailure) /\ [][C14_RaisedIsFinal]_vars

\* C14 witness: the call raised on the third record of three, after two
\* records were embedded.
C14_Witness ==
    /\ embStatus = "raised"
    /\ Len(embRecords) = 3
    /\ embPos = 2
    /\ "embedding" \in DOMAIN embRecords[2]

----------------------------------------------------------------------------
(* Properties of the enrichment orchestrator when a worker raises. *)

\* Some chunk or document worker has raised.
SomeWorkerRaised ==
    \/ RaisedDocs # {}
    \/ \E d \in 1..Len(docs) : RaisedChunks(d) # {}

\* An exception can travel one level up: out of a document whose threads have
\* returned, or out of enrich_chunks once the running documents have returned.
CanRaise ==
    \/ \E d \in 1..Len(docs) :
          /\ docState[d] = "running"
          /\ RaisedChunks(d) # {}
          /\ RunningChunks(d) = {}
    \/ /\ epc = "mapping"
       /\ RaisedDocs # {}
       /\ RunningDocs = {}

\* C15: once the processing of a chunk or a document has raised, the call
\* never returns records: it can always go on until it raises, it raises the
\* exception of a worker that did raise, and it leaves no records, whatever
\* the order in which the workers completed.
C15_FailureFailsWholeCall ==
    /\ SomeWorkerRaised =>
          /\ epc # "done"
          /\ records = <<>>
          /\ epc = "mapping" => (CanProceed \/ CanRaise)
    /\ epc = "done" => callError = None
    /\ epc = "raised" =>
          /\ records = <<>>
          /\ callError # None
          /\ LET d == callError[1][1]
                 i == callError[1][2]
             IN  /\ docState[d] = "raised"
                 /\ IF i = 0
                    THEN \A j \in 1..Len(docs[d].chunks) : chunkState[d][j] = "done"
                    ELSE chunkState[d][i] = "raised"

\* C15 witness: of two documents run side by side, the second raised in one
\* of its chunks before the first returned its enriched chunks, and the call
\* raised the second's exception.
C15_Witness ==
    /\ epc = "raised"
    /\ Len(docs) = 2
    /\ docOrder = <<2, 1>>
    /\ docState[1] = "done"
    /\ docResult[1] # None
    /\ docState[2] = "raised"
    /\ callError # None
    /\ callError[1][1] = 2
    /\ callError[1][2] >= 1

----------------------------------------------------------------------------
(* Properties of the spelling dictionaries. *)

\* C16: every SpellChecker instance is created by one document task, a chunk
\* worker is handed the instance of its own document's task and no other, and
\* two document tasks that run at the same time hold different instances.
C16_SpellCheckerPerDocumentTask ==
    /\ \A x, y \in docSpell : x[2] = y[2] => x[1] = y[1]
    /\ \A x, y \in docSpell : x[1] = y[1] => x[2] = y[2]
    /\ \A u \in chunkSpell : <<u[1], u[3]>> \in docSpell
    /\ \A d, e \in RunningDocs :
          d # e => \A x, y \in docSpell : (x[1] = d /\ y[1] = e) => x[2] # y[2]
    /\ \A d \in 1..Len(docs) :
          docState[d] # "queued" => \E x \in docSpell : x[1] = d

\* C16 witness: two document tasks run at the same time, each with a chunk
\* worker at work on its dictionary.
C16_Witness ==
    /\ Cardinality(RunningDocs) = 2
    /\ \A d \in RunningDocs : RunningChunks(d) # {}
    /\ Cardinality({ u[3] : u \in chunkSpell }) = 2

----------------------------------------------------------------------------
(* Properties of the normalizer. *)

\* C17 as stated: the normalizer applied to its own output returns that
\* output unchanged.
C17_NormalizerIdempotent ==
    npc = "done" => nTwice = nOnce

----------------------------------------------------------------------------
(* Properties of the chunker. *)

\* Position i of the content lies in a place where segment s occurs in it.
CoveredBy(i, s) ==
    \E start \in 1..(Len(cContent) - Len(s) + 1) :
        /\ start <= i
        /\ i < start + Len(s)
        /\ SubSeq(cContent, start, start + Len(s) - 1) = s

\* No segment has more than ChunkSize tokens.
SegmentsWithinChunkSize ==
    \A k \in 1..Len(cSegments) : TokenLen(cSegments[k]) <= ChunkSize

\* Every character of the content is in a segment.
SegmentsCoverContent ==
    \A i \in 1..Len(cContent) :
        \E k \in 1..Len(cSegments) : CoveredBy(i, cSegments[k])

\* C18 as stated: with 0 <= overlap < max_tokens, every character of the
\* content is in some segment, no segment has more than max_tokens tokens,
\* and an empty content gives no segment.
C18_SegmentsCoverAndFit ==
    (cpc = "done" /\ ChunkSize > 0 /\ ChunkOverlap < ChunkSize) =>
        /\ SegmentsCoverContent
        /\ SegmentsWithinChunkSize
        /\ cContent = <<>> => cSegments = <<>>

----------------------------------------------------------------------------
(* C19: INCLUDE_METADATA read as a boolean flag. *)

\* The values of INCLUDE_METADATA by which a boolean flag is switched off.
ConfiguredFalse(env) == env \in { "", "False", "0" }

\* C19: when INCLUDE_METADATA is configured false ("False", "0" or empty),
\* no snippet has a metadata line: the context is made of the chunk texts of
\* the appended hits, each followed by a newline.
C19_FlagFalseNoMetadataLine ==
    (apc = "done" /\ ConfiguredFalse(envIncludeMeta)) =>
        context = Concat([i \in 1..appended |->
                     BodyOf(hits[i].payload) \o <<NL>>])

----------------------------------------------------------------------------
(* C20: the payload of a point written by the indexing job. *)

\* The fields of a chunk record other than embedding.
RecordFields ==
    { "chunk_id", "chunk_index", "chunk_text", "doc_id", "source", "type",
      "title", "location", "created_at", "fetched_at", "language", "keywords" }

\* The batch is written: every record has the twelve fields and an embedding,
\* and its point in pts has exactly the twelve fields as payload, with the
\* record's values.
PayloadsWritten(batch, pts) ==
    \A i \in 1..Len(batch) :
        LET r == batch[i]
        IN  /\ DOMAIN r = RecordFields \cup {"embedding"}
            /\ \E pt \in pts : pt.id = r.chunk_id
            /\ \A pt \in pts :
                  pt.id = r.chunk_id =>
                      /\ DOMAIN pt.payload = RecordFields
                      /\ \A k \in RecordFields : pt.payload[k] = r[k]

\* C20: for every chunk record that the enrichment orchestrator produced and
\* embed_chunks embedded, the payload written by upsert_chunks has exactly
\* the record's fields other than embedding, with their values unchanged;
\* embedding is never in the payload.
C20_PayloadIsRecordWithoutEmbedding ==
    [][(history' # history) =>
          PayloadsWritten(history'[Len(history')], points')]_vars

\* C20 witness: a job wrote a batch of at least two records, one of them with
\* keywords and a chunk_index other than 0, and the store holds their points.
C20_Witness ==
    /\ jobStatus = "ok"
    /\ history # <<>>
    /\ LET batch == history[Len(history)]
       IN  /\ Len(batch) >= 2
           /\ \E i \in 1..Len(batch) :
                 /\ batch[i].keywords # <<>>
                 /\ batch[i].chunk_index > 0
                 /\ \E pt \in points :
                       /\ pt.id = batch[i].chunk_id
                       /\ pt.vector = batch[i].embedding

----------------------------------------------------------------------------
(* C21: the empty batch and the sizes of the two pools. *)

\* The outer pool has been created (or its creation has been refused).
OuterPoolRequested == epc # "ready"

\* C21: enrich_chunks of an empty batch ends without error and returns no
\* record; the outer pool is always created with a size of at least 1, and
\* the inner pool of a document that reaches it has a size from 1 to 4.
C21_EmptyBatchReturnsEmpty ==
    /\ epc # "error"
    /\ (docs = <<>> /\ epc = "done") => records = <<>>
    /\ OuterPoolRequested => poolSize >= 1
    /\ \A d \in 1..Len(docs) :
          docState[d] = "running" => InnerPoolSize(docs[d]) \in 1..4

----------------------------------------------------------------------------
(* C22: the output of one enrich_chunks call is a function of the batch. *)

\* A record's fields other than chunk_id.
WithoutChunkId(r) == [k \in DOMAIN r \ {"chunk_id"} |-> r[k]]

\* The records of the batch when its documents are processed one after the
\* other, in input order: a function of docs alone.
SequentialRecords ==
    ToChunkRecords([d \in 1..Len(docs) |-> ProcessSingleDocument(docs[d])], 0)

\* Two record sequences agree in length and, record by record, in every field
\* other than chunk_id.
SameButChunkId(rs, ss) ==
    [k \in 1..Len(rs) |-> WithoutChunkId(rs[k])]
        = [k \in 1..Len(ss) |-> WithoutChunkId(ss[k])]

\* C22: for a fixed batch the returned records are the same under every
\* completion order of the document workers, chunk_id aside: they are grouped
\* by document in the input order of the documents, all records of document
\* j before any record of document j+1.
C22_OutputDeterministic ==
    epc = "done" =>
        /\ SameButChunkId(records, SequentialRecords)
        /\ \A d \in 1..Len(docs) : \A i \in 1..Len(docs[d].chunks) :
              /\ records[ChunksBefore(d) + i].doc_id = docs[d].document_id
              /\ records[ChunksBefore(d) + i].chunk_index = i - 1

\* C22 witness: a call returned for two different documents with chunks, the
\* second of which completed before the first.
C22_Witness ==
    /\ epc = "done"
    /\ Len(docs) = 2
    /\ docs[1].document_id # docs[2].document_id
    /\ docs[1].chunks # <<>> /\ docs[2].chunks # <<>>
    /\ docs[1].chunks # docs[2].chunks
    /\ docOrder = <<2, 1>>
    /\ records[1].doc_id = docs[1].document_id

====
